---- MODULE Spec2Model ----
(***************************************************************************)
(* GitHub Autopilot: a webhook-driven bot.                                 *)
(*   src/app/auth.py      installation-token cache, repository and         *)
(*                        assistant clients                                *)
(*   src/app/handlers.py  the four event handlers                          *)
(*   src/server.py        the webhook gateway                              *)
(*                                                                         *)
(* Text is modelled as sequences of characters (one-character strings;     *)
(* "BQ" stands for the backquote and "NL" for the line feed).              *)
(***************************************************************************)
EXTENDS Integers, Sequences, FiniteSets, TLC

VARIABLES
    now,            \* time.time(), in seconds
    token_cache,    \* auth._token_cache: installation id -> entry
    nextTok,        \* the host's next fresh token
    tpc,            \* per caller: position in get_installation_token
    tinst,          \* per caller: installation_id
    tcached,        \* per caller: local `cached`
    ttoken,         \* per caller: local `token`
    tcheck,         \* per caller: time.time() read on line 36
    tx,             \* per caller: exchange requests this call has sent
    tret,           \* per caller: what the call returned
    lastFresh,      \* per installation: the last call that stored an entry
    issued,         \* per installation: tokens the host issued
    exchanges,      \* per installation: exchange requests made
    ncalls,         \* calls begun so far
    WEBHOOK_SECRET, \* server.WEBHOOK_SECRET ("" when not configured)
    pc,             \* position of the delivery being served
    req,            \* the request: headers and raw body
    status,         \* the response status of the last delivery served
    handler,        \* the handler the delivery was dispatched to
    dispatched,     \* the event dispatch (server.py 56-72) was reached
    raised,         \* the handler raised
    sent,           \* outbound requests of this delivery, by kind
    okd,            \* those the remote side carried out, by kind
    loc,            \* the handler's local variables
    ndeliv,         \* deliveries received so far
    groq            \* a call of auth.groq_ask: response, position, outcome

cacheVars == <<token_cache, nextTok, lastFresh, issued, exchanges>>
threadVars == <<tpc, tinst, tcached, ttoken, tcheck, tx, tret, ncalls>>
gwVars == <<WEBHOOK_SECRET, pc, req, status, handler, dispatched, raised, sent,
            okd, loc, ndeliv, groq>>

vars == <<now, cacheVars, threadVars, gwVars>>

(***************************************************************************)
(* Bounds of the model.                                                    *)
(***************************************************************************)
NumThreads == 2
NumInstallations == 2
MaxTime == 3000
MaxCalls == 2

Threads == 1..NumThreads
Installations == 1..NumInstallations
\* the clock advances in steps whose sums meet, for a token stored at 0,
\* 1470 and 1500 (hits), 2940 (the margin), 2970 (inside the margin) and
\* 3000 (the recorded expiry)
TickSteps == {1470, 1500}

None == <<>>

\* the kinds of outbound request
CallKinds == {"exchange", "gh_get", "label_create", "label_apply", "patch",
              "comment", "issue_create", "groq"}
NoCalls == [k \in CallKinds |-> 0]

\* no call of groq_ask is under way
NoGroqCall == [pc |-> "none", http |-> TRUE, text |-> <<>>,
               out |-> [kind |-> "none", value |-> <<>>]]

(***************************************************************************)
(* Text: Python str operations and the regular expressions the handlers    *)
(* use, on sequences of characters                                         *)
(***************************************************************************)
Min(S) == CHOOSE x \in S : \A y \in S : x <= y

UpperChars == {"A", "B", "C", "D", "E", "F", "G", "H", "I", "J", "K", "L", "M",
               "N", "O", "P", "Q", "R", "S", "T", "U", "V", "W", "X", "Y", "Z"}
LowerChars == {"a", "b", "c", "d", "e", "f", "g", "h", "i", "j", "k", "l", "m",
               "n", "o", "p", "q", "r", "s", "t", "u", "v", "w", "x", "y", "z"}
Digits == {"0", "1", "2", "3", "4", "5", "6", "7", "8", "9"}

\* str.lower() on the upper-case letters
LowerOf ==
    [c \in UpperChars |->
        CASE c = "A" -> "a" [] c = "B" -> "b" [] c = "C" -> "c" [] c = "D" -> "d"
          [] c = "E" -> "e" [] c = "F" -> "f" [] c = "G" -> "g" [] c = "H" -> "h"
          [] c = "I" -> "i" [] c = "J" -> "j" [] c = "K" -> "k" [] c = "L" -> "l"
          [] c = "M" -> "m" [] c = "N" -> "n" [] c = "O" -> "o" [] c = "P" -> "p"
          [] c = "Q" -> "q" [] c = "R" -> "r" [] c = "S" -> "s" [] c = "T" -> "t"
          [] c = "U" -> "u" [] c = "V" -> "v" [] c = "W" -> "w" [] c = "X" -> "x"
          [] c = "Y" -> "y" [] c = "Z" -> "z"]

\* str.lower() on one character
LowerChar(c) == IF c \in UpperChars THEN LowerOf[c] ELSE c

\* str.lower()
Lower(s) == [k \in 1..Len(s) |-> LowerChar(s[k])]

\* [\w]
IsWordChar(c) == c \in UpperChars \cup LowerChars \cup Digits \cup {"_"}

\* whitespace, as str.strip() takes it
IsSpace(c) == c \in {" ", "NL", "TAB", "CR"}

\* s[p:].startswith(pat)
StartsAt(s, p, pat) ==
    /\ p >= 1
    /\ p + Len(pat) - 1 <= Len(s)
    /\ \A k \in 1..Len(pat) : s[p + k - 1] = pat[k]

\* pat in s
Contains(s, pat) == \E p \in 1..(Len(s) + 1) : StartsAt(s, p, pat)

\* s[:n]
Take(s, n) == SubSeq(s, 1, IF Len(s) < n THEN Len(s) ELSE n)

\* str.strip()
Strip(s) ==
    LET keep == {k \in 1..Len(s) : ~IsSpace(s[k])}
    IN  IF keep = {} THEN <<>>
        ELSE SubSeq(s, Min(keep), CHOOSE k \in keep : \A j \in keep : j <= k)

\* str.replace(pat, ""), from position p on
RECURSIVE RemoveAll(_, _, _)
RemoveAll(s, p, pat) ==
    IF p > Len(s) THEN <<>>
    ELSE IF Len(pat) > 0 /\ StartsAt(s, p, pat)
         THEN RemoveAll(s, p + Len(pat), pat)
         ELSE <<s[p]>> \o RemoveAll(s, p + 1, pat)

FENCE == <<"BQ", "BQ", "BQ">>
CLOSE == <<"NL", "BQ", "BQ", "BQ">>

\* where the run of [\w] characters that begins at p ends
RECURSIVE WordRunEnd(_, _)
WordRunEnd(s, p) ==
    IF p <= Len(s) /\ IsWordChar(s[p]) THEN WordRunEnd(s, p + 1) ELSE p

\* the match of ```[\w]*\n([\s\S]*?)\n``` that begins at i: the bounds of
\* group 1, or None. [\w]* is greedy, and what follows it has to be a line
\* feed, so it takes the whole run; the group is lazy, so it ends at the
\* first closing line.
BlockMatchAt(s, i) ==
    IF ~StartsAt(s, i, FENCE) THEN None
    ELSE LET j == WordRunEnd(s, i + 3)
             ks == {k \in (j + 1)..Len(s) : StartsAt(s, k, CLOSE)}
         IN  IF j > Len(s) \/ s[j] # "NL" \/ ks = {} THEN None
             ELSE <<j + 1, Min(ks) - 1>>

\* re.search(r'```[\w]*\n([\s\S]*?)\n```', body): group 1 of the leftmost
\* match, or "" when there is none (line 319)
CodeBlock(s) ==
    LET starts == {i \in 1..Len(s) : BlockMatchAt(s, i) # None}
    IN  IF starts = {} THEN <<>>
        ELSE LET g == BlockMatchAt(s, Min(starts))
             IN  SubSeq(s, g[1], g[2])

\* re.sub(r'```[\s\S]*?```', '', s), from position p on: each leftmost
\* fence up to the nearest fence after it is dropped
RECURSIVE RemoveFenced(_, _)
RemoveFenced(s, p) ==
    IF p > Len(s) THEN <<>>
    ELSE LET ms == {m \in (p + 3)..Len(s) : StartsAt(s, m, FENCE)}
         IN  IF StartsAt(s, p, FENCE) /\ ms # {}
                THEN RemoveFenced(s, Min(ms) + 3)
                ELSE <<s[p]>> \o RemoveFenced(s, p + 1)

\* the concatenation of a sequence of texts
RECURSIVE Flatten(_)
Flatten(ss) == IF ss = <<>> THEN <<>> ELSE Head(ss) \o Flatten(Tail(ss))

(***************************************************************************)
(* auth.py: the token cache                                                *)
(***************************************************************************)
TokenMargin == 60
TokenTTL == 50 * 60

\* the comparison without the margin
CacheHit_NoMargin(cached, t) ==
    cached # None /\ cached.expires > t

\* line 36: cached and cached["expires"] > time.time() + 60
CacheHit(cached, t) ==
    cached # None /\ cached.expires > t + TokenMargin

\* the lifetime taken in seconds instead of minutes
StoreEntry_ShortTTL(cache, i, token, t) ==
    [cache EXCEPT ![i] = [token |-> token, expires |-> t + 50]]

\* an update in place that keeps the expiry of an entry already there
StoreEntry_Merge(cache, i, token, t) ==
    [cache EXCEPT ![i] =
        [token |-> token,
         expires |-> IF cache[i] = None THEN t + TokenTTL ELSE cache[i].expires]]

\* lines 52-55: _token_cache[installation_id] = {"token": ..., "expires": ...}
StoreEntry(cache, i, token, t) ==
    [cache EXCEPT ![i] = [token |-> token, expires |-> t + TokenTTL]]

\* lines 35-37: the lookup and the expiry comparison; a hit returns the
\* cached token. The two statements are one step: between them the caller
\* holds its own reference to the entry, so no other caller's store can
\* change what it compares.
Lookup(t, i) ==
    /\ tpc[t] = "idle"
    /\ ncalls < MaxCalls
    /\ ncalls' = ncalls + 1
    /\ tinst' = [tinst EXCEPT ![t] = i]
    /\ tcached' = [tcached EXCEPT ![t] = token_cache[i]]
    /\ tcheck' = [tcheck EXCEPT ![t] = now]
    /\ IF CacheHit(token_cache[i], now)
          THEN /\ tpc' = [tpc EXCEPT ![t] = "returned"]
               /\ tret' = [tret EXCEPT ![t] =
                              [kind |-> "cached", token |-> token_cache[i].token]]
          ELSE /\ tpc' = [tpc EXCEPT ![t] = "exchange"]
               /\ UNCHANGED tret
    /\ UNCHANGED gwVars
    /\ UNCHANGED <<now, token_cache, nextTok, ttoken, tx, lastFresh, issued,
                   exchanges>>

Exchange_EvictOnFailure(t) ==
    /\ tpc[t] = "exchange"
    /\ exchanges' = [exchanges EXCEPT ![tinst[t]] = @ + 1]
    /\ tx' = [tx EXCEPT ![t] = @ + 1]
    /\ \E ok \in BOOLEAN :
          IF ok
             THEN /\ ttoken' = [ttoken EXCEPT ![t] = nextTok]
                  /\ nextTok' = nextTok + 1
                  /\ issued' = [issued EXCEPT ![tinst[t]] = @ \cup {nextTok}]
                  /\ tpc' = [tpc EXCEPT ![t] = "store"]
                  /\ UNCHANGED <<tret, token_cache>>
             ELSE /\ tpc' = [tpc EXCEPT ![t] = "raised"]
                  /\ tret' = [tret EXCEPT ![t] = [kind |-> "raised", token |-> 0]]
                  /\ token_cache' = [token_cache EXCEPT ![tinst[t]] = None]
                  /\ UNCHANGED <<ttoken, nextTok, issued>>
    /\ UNCHANGED gwVars
    /\ UNCHANGED <<now, tinst, tcached, tcheck, lastFresh, ncalls>>

\* lines 39-50: the exchange request; raise_for_status() raises on non-success
Exchange(t) ==
    /\ tpc[t] = "exchange"
    /\ exchanges' = [exchanges EXCEPT ![tinst[t]] = @ + 1]
    /\ tx' = [tx EXCEPT ![t] = @ + 1]
    /\ \E ok \in BOOLEAN :
          IF ok
             THEN /\ ttoken' = [ttoken EXCEPT ![t] = nextTok]
                  /\ nextTok' = nextTok + 1
                  /\ issued' = [issued EXCEPT ![tinst[t]] = @ \cup {nextTok}]
                  /\ tpc' = [tpc EXCEPT ![t] = "store"]
                  /\ UNCHANGED tret
             ELSE /\ tpc' = [tpc EXCEPT ![t] = "raised"]
                  /\ tret' = [tret EXCEPT ![t] = [kind |-> "raised", token |-> 0]]
                  /\ UNCHANGED <<ttoken, nextTok, issued>>
    /\ UNCHANGED gwVars
    /\ UNCHANGED <<now, token_cache, tinst, tcached, tcheck, lastFresh, ncalls>>

\* lines 52-57: the cache entry is overwritten and the fresh token returned
Store(t) ==
    /\ tpc[t] = "store"
    /\ token_cache' = StoreEntry(token_cache, tinst[t], ttoken[t], now)
    /\ tret' = [tret EXCEPT ![t] = [kind |-> "fresh", token |-> ttoken[t]]]
    /\ tpc' = [tpc EXCEPT ![t] = "returned"]
    /\ lastFresh' = [lastFresh EXCEPT ![tinst[t]] =
                        [start |-> tcheck[t], end |-> now, token |-> ttoken[t]]]
    /\ UNCHANGED gwVars
    /\ UNCHANGED <<now, nextTok, tinst, tcached, ttoken, tcheck, tx, issued,
                   exchanges, ncalls>>

\* the caller goes on with the returned token or the raised error; the
\* frame of the call is gone
Finish(t) ==
    /\ tpc[t] \in {"returned", "raised"}
    /\ tpc' = [tpc EXCEPT ![t] = "idle"]
    /\ tinst' = [tinst EXCEPT ![t] = 1]
    /\ tcached' = [tcached EXCEPT ![t] = None]
    /\ ttoken' = [ttoken EXCEPT ![t] = 0]
    /\ tcheck' = [tcheck EXCEPT ![t] = 0]
    /\ tx' = [tx EXCEPT ![t] = 0]
    /\ tret' = [tret EXCEPT ![t] = None]
    /\ UNCHANGED gwVars
    /\ UNCHANGED <<now, token_cache, nextTok, lastFresh, issued, exchanges,
                   ncalls>>

\* time passes
Tick ==
    /\ \E d \in TickSteps :
          /\ now + d <= MaxTime
          /\ now' = now + d
    /\ UNCHANGED gwVars
    /\ UNCHANGED <<token_cache, nextTok, tpc, tinst, tcached, ttoken, tcheck,
                   tx, tret, lastFresh, issued, exchanges, ncalls>>

InitAuth ==
    /\ now = 0
    /\ token_cache = [i \in Installations |-> None]
    /\ nextTok = 1
    /\ tpc = [t \in Threads |-> "idle"]
    /\ tinst = [t \in Threads |-> 1]
    /\ tcached = [t \in Threads |-> None]
    /\ ttoken = [t \in Threads |-> 0]
    /\ tcheck = [t \in Threads |-> 0]
    /\ tx = [t \in Threads |-> 0]
    /\ tret = [t \in Threads |-> None]
    /\ lastFresh = [i \in Installations |-> None]
    /\ issued = [i \in Installations |-> {}]
    /\ exchanges = [i \in Installations |-> 0]
    /\ ncalls = 0
    /\ WEBHOOK_SECRET = ""
    /\ pc = "idle"
    /\ req = None
    /\ status = 0
    /\ handler = ""
    /\ dispatched = FALSE
    /\ raised = FALSE
    /\ sent = NoCalls
    /\ okd = NoCalls
    /\ loc = None
    /\ ndeliv = 0
    /\ groq = NoGroqCall

NextAuth ==
    \/ \E t \in Threads, i \in Installations : Lookup(t, i)
    \/ \E t \in Threads : Exchange(t)
    \/ \E t \in Threads : Store(t)
    \/ \E t \in Threads : Finish(t)
    \/ Tick

SpecAuth == InitAuth /\ [][NextAuth]_vars

(***************************************************************************)
(* Deliveries.  One delivery is served at a time here; each outbound       *)
(* request is a step whose outcome the remote side decides.                *)
(***************************************************************************)
MaxDeliveries == 2
MaxFrags == 2

Bump(f, k) == [f EXCEPT ![k] = @ + 1]

\* what is left unchanged by every step of a delivery
Elsewhere == UNCHANGED <<now, threadVars, WEBHOOK_SECRET, req, ndeliv, groq>>

\* the handler returns
Return ==
    /\ pc' = "respond"
    /\ UNCHANGED raised

\* an exception leaves the handler
Raise ==
    /\ pc' = "respond"
    /\ raised' = TRUE

get_installation_token_Lenient(i, next) ==
    IF CacheHit(token_cache[i], now)
       THEN /\ loc' = [loc EXCEPT !.token = token_cache[i].token]
            /\ pc' = next
            /\ UNCHANGED <<cacheVars, sent, okd, raised>>
       ELSE /\ sent' = Bump(sent, "exchange")
            /\ UNCHANGED <<exchanges, issued, lastFresh>>
            /\ pc' = next
            /\ UNCHANGED raised
            /\ \E ok \in BOOLEAN :
                  IF ok
                     THEN /\ okd' = Bump(okd, "exchange")
                          /\ token_cache' = StoreEntry(token_cache, i, nextTok, now)
                          /\ nextTok' = nextTok + 1
                          /\ loc' = [loc EXCEPT !.token = nextTok]
                     ELSE UNCHANGED <<okd, token_cache, nextTok, loc>>

\* auth.py 33-57, called by a handler for installation i; next is where the
\* handler goes on. No other call is in flight, so the call is one step.
\* (exchanges, issued and lastFresh keep the record of the calls of SpecAuth
\* only; what a delivery sends is counted in sent and okd.)
get_installation_token(i, next) ==
    IF CacheHit(token_cache[i], now)
       THEN /\ loc' = [loc EXCEPT !.token = token_cache[i].token]
            /\ pc' = next
            /\ UNCHANGED <<cacheVars, sent, okd, raised>>
       ELSE /\ sent' = Bump(sent, "exchange")
            /\ UNCHANGED <<exchanges, issued, lastFresh>>
            /\ \E ok \in BOOLEAN :
                  IF ok
                     THEN /\ okd' = Bump(okd, "exchange")
                          /\ token_cache' = StoreEntry(token_cache, i, nextTok, now)
                          /\ nextTok' = nextTok + 1
                          /\ loc' = [loc EXCEPT !.token = nextTok]
                          /\ pc' = next
                          /\ UNCHANGED raised
                     ELSE /\ Raise
                          /\ UNCHANGED <<okd, token_cache, nextTok, loc>>

\* auth.py 90-116 and 119-139: what a request to the assistant comes to.
\* groq_ask raises on an HTTP failure and when json.loads rejects the
\* matched text; otherwise it returns the parsed object or {"raw": text}.
GroqAskOutcomes ==
    {[ok |-> FALSE, why |-> "http"], [ok |-> FALSE, why |-> "json"],
     [ok |-> TRUE, shape |-> "full"], [ok |-> TRUE, shape |-> "raw"]}
GroqTextOutcomes ==
    {[ok |-> FALSE, why |-> "http"], [ok |-> TRUE, shape |-> "text"]}

(***************************************************************************)
(* auth.py 90-116: groq_ask, from the response to what the caller gets.    *)
(* The response text is a sequence of lexical units: "{", "}", ":", ",",   *)
(* "S" (a quoted string), "1" (a number) and "w" (a word of prose).        *)
(***************************************************************************)
MaxTextLen == 4

TextUnits == {"{", "}", ":", ",", "S", "1", "w"}

\* line 113: re.search(r'\{[\s\S]*\}', text).group(), the text from the
\* first "{" to the last "}" behind it; <<>> when there is no match
GroqMatch(text) ==
    LET opens == {k \in 1..Len(text) : text[k] = "{"}
        closes == {k \in 1..Len(text) : text[k] = "}"}
    IN  IF opens = {} \/ {k \in closes : k > Min(opens)} = {}
           THEN <<>>
           ELSE SubSeq(text, Min(opens), CHOOSE k \in closes : \A j \in closes : j <= k)

\* json.loads, the JSON grammar over the units: where the value that starts
\* at position p ends (the position behind it), 0 when there is none
RECURSIVE ValueEnd(_, _)
RECURSIVE MembersEnd(_, _)
MembersEnd(s, p) ==
    IF p + 2 > Len(s) \/ s[p] # "S" \/ s[p + 1] # ":" THEN 0
    ELSE LET q == ValueEnd(s, p + 2)
         IN  IF q = 0 \/ q > Len(s) THEN 0
             ELSE IF s[q] = "}" THEN q + 1
             ELSE IF s[q] = "," THEN MembersEnd(s, q + 1)
             ELSE 0

ValueEnd(s, p) ==
    IF p > Len(s) THEN 0
    ELSE IF s[p] \in {"S", "1"} THEN p + 1
    ELSE IF s[p] = "{"
       THEN IF p + 1 <= Len(s) /\ s[p + 1] = "}" THEN p + 2
            ELSE MembersEnd(s, p + 1)
    ELSE 0

\* json.loads(s) returns: s is one JSON value and nothing else
JsonLoads(s) == ValueEnd(s, 1) = Len(s) + 1

\* lines 111-116, after the HTTP exchange: the parsed object, {"raw": text},
\* or the exception of json.loads, which no handler is installed for
ParseResponse(text) ==
    LET m == GroqMatch(text)
    IN  IF m = <<>> THEN [kind |-> "raw", value |-> text]
        ELSE IF JsonLoads(m) THEN [kind |-> "object", value |-> m]
        ELSE [kind |-> "raised", value |-> <<"JSONDecodeError">>]

\* the response texts of the model: every text of up to MaxTextLen units,
\* an object between prose, two objects with prose between them, a nested
\* object, and a placeholder in braces
TextPrefixed == <<"w", "{", "S", ":", "1", "}", "w">>
TextTwoObjects == <<"{", "S", ":", "1", "}", "w", "{", "S", ":", "1", "}">>
TextNested == <<"{", "S", ":", "{", "S", ":", "1", "}", "}">>
TextPlaceholder == <<"w", "{", "w", "}", "w">>

ResponseTexts ==
    UNION {[1..n -> TextUnits] : n \in 0..MaxTextLen}
    \cup {TextPrefixed, TextTwoObjects, TextNested, TextPlaceholder}

\* lines 90-116: one call of groq_ask
groq_ask ==
    /\ groq.pc = "call"
    /\ groq' = [groq EXCEPT
                  !.pc = "returned",
                  !.out = IF ~groq.http
                             THEN [kind |-> "raised", value |-> <<"HTTPError">>]
                             ELSE ParseResponse(groq.text)]
    /\ UNCHANGED <<now, cacheVars, threadVars, WEBHOOK_SECRET, pc, req, status,
                   handler, dispatched, raised, sent, okd, loc, ndeliv>>

(***************************************************************************)
(* handlers.py 285-376: handle_issue_comment                               *)
(***************************************************************************)
SKIP_AUTHORS == {"dependabot[bot]", "renovate[bot]", "github-actions[bot]"}

\* author.endswith("[bot]"), over the logins of the model
EndsWithBot(author) ==
    author \in {"dependabot[bot]", "renovate[bot]", "github-actions[bot]",
                "stale[bot]"}

CmdFix == <<"/", "f", "i", "x">>
CmdExplain == <<"/", "e", "x", "p", "l", "a", "i", "n">>
CmdImprove == <<"/", "i", "m", "p", "r", "o", "v", "e">>
CmdTest == <<"/", "t", "e", "s", "t">>
CmdDocs == <<"/", "d", "o", "c", "s">>
CmdReview == <<"/", "r", "e", "v", "i", "e", "w">>

\* line 300
COMMANDS == <<CmdFix, CmdExplain, CmdImprove, CmdTest, CmdDocs, CmdReview>>

\* the last listed command whose token occurs
RECURSIVE LastCommand(_, _)
LastCommand(low, k) ==
    IF k < 1 THEN None
    ELSE IF Contains(low, COMMANDS[k]) THEN COMMANDS[k]
         ELSE LastCommand(low, k - 1)

\* the selection that lets the last listed token win
SelectCommand_LastMatch(body) == LastCommand(Lower(body), Len(COMMANDS))

\* next((c for c in COMMANDS if c in low), None), from entry k on
RECURSIVE FirstCommand(_, _)
FirstCommand(low, k) ==
    IF k > Len(COMMANDS) THEN None
    ELSE IF Contains(low, COMMANDS[k]) THEN COMMANDS[k]
         ELSE FirstCommand(low, k + 1)

\* line 301
SelectCommand(body) == FirstCommand(Lower(body), 1)

\* the handler without the early return
ReturnsWithoutCommand_Never(cmd) == FALSE

\* lines 302-303: if not cmd: return
ReturnsWithoutCommand(cmd) == cmd = None

\* line 320
CommentContext(body, cmd) == Strip(RemoveAll(RemoveFenced(body, 1), 1, cmd))

\* line 321: code or context or ctx_body or ctx_title
FullContext(code, context, ctx_body, ctx_title) ==
    IF code # <<>> THEN code
    ELSE IF context # <<>> THEN context
    ELSE IF ctx_body # <<>> THEN ctx_body
    ELSE ctx_title

PromptCut == 2000

Lit(x) == [kind |-> "lit", v |-> x]
Var(x) == [kind |-> "var", v |-> x]

\* lines 326-368: the user message of the command's request, as its fixed
\* pieces and the texts put between them
CommandPrompt(cmd, ctx_title, full_context) ==
    IF cmd = CmdFix
       THEN <<Lit("Fix: Context: "), Var(ctx_title), Lit("NL"),
              Var(Take(full_context, PromptCut)), Lit("Return: root_cause ...")>>
    ELSE IF cmd = CmdExplain
       THEN <<Lit("Explain:"), Var(Take(full_context, PromptCut))>>
    ELSE IF cmd = CmdImprove
       THEN <<Lit("Improve:"), Var(Take(full_context, PromptCut)),
              Lit("Return: improvements ...")>>
    ELSE IF cmd = CmdTest
       THEN <<Lit("Tests for:"), Var(Take(full_context, PromptCut)),
              Lit("Return: framework ...")>>
    ELSE IF cmd = CmdDocs
       THEN <<Lit("Docs for:"), Var(Take(full_context, PromptCut)),
              Lit("Return: docstring ...")>>
    ELSE <<>>

\* the commands answered without a request to the assistant
AsksAssistant(cmd) == cmd \in {CmdFix, CmdExplain, CmdImprove, CmdTest, CmdDocs}

\* /review without a reply text
ReviewResponse_Empty == <<>>

\* line 372
ReviewResponse == <<Lit("Re-running review...")>>

\* lines 323-372: `response`, by command and the assistant's answer
CommandResponse(cmd, r) ==
    IF cmd = CmdFix THEN <<Lit("Fix"), r>>
    ELSE IF cmd = CmdExplain THEN <<Lit("Explanation"), r>>
    ELSE IF cmd = CmdImprove THEN <<Lit("Improvements"), r>>
    ELSE IF cmd = CmdTest THEN <<Lit("Tests"), r>>
    ELSE IF cmd = CmdDocs THEN <<Lit("Documentation"), r>>
    ELSE IF cmd = CmdReview THEN ReviewResponse
    ELSE <<>>

IcLoc == [cmd |-> None, token |-> 0, fetched |-> FALSE, ctx_title |-> <<>>,
          ctx_body |-> <<>>, code |-> <<>>, context |-> <<>>,
          full_context |-> <<>>, prompt |-> <<>>, response |-> <<>>]

\* the parent issue as the host holds it
IssueStates == {[title |-> <<"T">>, body |-> b] : b \in {<<>>, <<"B">>}}

\* lines 286-305
ic_guard ==
    /\ pc = "ic_guard"
    /\ LET P == req.payload
       IN  IF P.action # "created"
              THEN Return /\ UNCHANGED loc
           ELSE IF P.installation = 0
              THEN Raise /\ UNCHANGED loc
           ELSE IF P.author \in SKIP_AUTHORS \/ EndsWithBot(P.author)
              THEN Return /\ UNCHANGED loc
           ELSE LET cmd == SelectCommand(P.body)
                IN  /\ loc' = [IcLoc EXCEPT !.cmd = cmd]
                    /\ IF ReturnsWithoutCommand(cmd)
                          THEN Return
                          ELSE pc' = "ic_token" /\ UNCHANGED raised
    /\ UNCHANGED <<cacheVars, status, handler, dispatched, sent, okd>>
    /\ Elsewhere

\* line 306
ic_token ==
    /\ pc = "ic_token"
    /\ get_installation_token(req.payload.installation, "ic_issue")
    /\ UNCHANGED <<status, handler, dispatched>>
    /\ Elsewhere

\* lines 308-321: the parent issue is fetched (a failure leaves both texts
\* empty) and the context is put together
ic_issue ==
    /\ pc = "ic_issue"
    /\ sent' = Bump(sent, "gh_get")
    /\ \E got \in {None} \cup IssueStates :
          LET title == IF got = None THEN <<>> ELSE got.title
              ibody == IF got = None THEN <<>> ELSE got.body
              code == CodeBlock(req.payload.body)
              context == CommentContext(req.payload.body, loc.cmd)
          IN  /\ okd' = IF got = None THEN okd ELSE Bump(okd, "gh_get")
              /\ loc' = [loc EXCEPT !.fetched = (got # None),
                                    !.ctx_title = title,
                                    !.ctx_body = ibody,
                                    !.code = code,
                                    !.context = context,
                                    !.full_context =
                                        FullContext(code, context, ibody, title)]
    /\ pc' = "ic_ask"
    /\ UNCHANGED <<cacheVars, status, handler, dispatched, raised>>
    /\ Elsewhere

\* lines 323-372: the command's request to the assistant and its rendering
ic_ask ==
    /\ pc = "ic_ask"
    /\ IF AsksAssistant(loc.cmd)
          THEN /\ sent' = Bump(sent, "groq")
               /\ \E out \in (IF loc.cmd = CmdExplain THEN GroqTextOutcomes
                                                     ELSE GroqAskOutcomes) :
                     IF out.ok
                        THEN /\ okd' = Bump(okd, "groq")
                             /\ loc' = [loc EXCEPT
                                    !.prompt = CommandPrompt(loc.cmd, loc.ctx_title,
                                                             loc.full_context),
                                    !.response = CommandResponse(loc.cmd, out)]
                             /\ pc' = "ic_post"
                             /\ UNCHANGED raised
                        ELSE /\ loc' = [loc EXCEPT
                                    !.prompt = CommandPrompt(loc.cmd, loc.ctx_title,
                                                             loc.full_context)]
                             /\ Raise
                             /\ UNCHANGED okd
          ELSE /\ loc' = [loc EXCEPT !.response = CommandResponse(loc.cmd, None)]
               /\ pc' = "ic_post"
               /\ UNCHANGED <<sent, okd, raised>>
    /\ UNCHANGED <<cacheVars, status, handler, dispatched>>
    /\ Elsewhere

\* lines 374-376: the reply is posted when there is one
ic_post ==
    /\ pc = "ic_post"
    /\ IF loc.response = <<>>
          THEN Return /\ UNCHANGED <<sent, okd>>
          ELSE /\ sent' = Bump(sent, "comment")
               /\ \E ok \in BOOLEAN :
                     IF ok THEN okd' = Bump(okd, "comment") /\ Return
                           ELSE UNCHANGED okd /\ Raise
    /\ UNCHANGED <<cacheVars, status, handler, dispatched, loc>>
    /\ Elsewhere

handle_issue_comment == ic_guard \/ ic_token \/ ic_issue \/ ic_ask \/ ic_post

(***************************************************************************)
(* handlers.py 442-465: _ensure_labels                                     *)
(***************************************************************************)
NumLabels == 15

\* how many of the label creations the host accepted: none, or all but one
\* (the label was there already)
LabelOutcomes == {0, NumLabels - 1}

ensure_labels_Strict(next) ==
    /\ sent' = [sent EXCEPT !["label_create"] = @ + NumLabels]
    /\ \E n \in LabelOutcomes :
          /\ okd' = [okd EXCEPT !["label_create"] = @ + n]
          /\ IF n = NumLabels THEN pc' = next /\ UNCHANGED raised ELSE Raise
    /\ UNCHANGED loc

\* every creation is attempted, a failed one is passed over
ensure_labels(next) ==
    /\ sent' = [sent EXCEPT !["label_create"] = @ + NumLabels]
    /\ \E n \in LabelOutcomes : okd' = [okd EXCEPT !["label_create"] = @ + n]
    /\ pc' = next
    /\ UNCHANGED <<loc, raised>>

(***************************************************************************)
(* handlers.py 19-200: handle_pull_request and _run_code_review            *)
(***************************************************************************)
\* the value of a key the dict does not have: no text is equal to it
Absent == <<"absent">>

\* a name that was never bound
Unbound == [bound |-> FALSE, count |-> 0]

\* nx letters followed by nsp blanks
Pad(nx, nsp) == [i \in 1..(nx + nsp) |-> IF i <= nx THEN "x" ELSE " "]

SubstantiveLen == 30

\* the test on the length of the body as it is
NeedsBody_RawLength(body) == body = <<>> \/ Len(body) < SubstantiveLen

\* line 80: not body or len(body.strip()) < 30
NeedsBody(body) == body = <<>> \/ Len(Strip(body)) < SubstantiveLen

\* line 78: result.get("improved_title") and result["improved_title"] != title
TitleImproved(result, title) ==
    result.improved_title # <<>> /\ result.improved_title # title

\* lines 77-81: patch_data, a field being Absent when the key is not set
PatchData(result, title, body) ==
    [title |-> IF TitleImproved(result, title) THEN result.improved_title
                                               ELSE Absent,
     body  |-> IF NeedsBody(body)
                  THEN (IF result.description = Absent THEN body
                                                       ELSE result.description)
                  ELSE Absent]

\* line 83: if patch_data
NonEmptyPatch(pd) == pd.title # Absent \/ pd.body # Absent

PrTitle == <<"t">>

\* what groq_ask returns for the analysis: the object's improved_title
\* (<<>> when missing or empty), its description and whether it lists labels,
\* with the expected keys the object has; the {"raw": text} fallback has
\* none of them
PrResults ==
    {[ok |-> TRUE, improved_title |-> it,
      description |-> IF d THEN <<"D">> ELSE Absent, labels |-> l,
      keys |-> (IF it # <<>> \/ e THEN {"improved_title"} ELSE {})
               \cup (IF d THEN {"description"} ELSE {})
               \cup (IF l THEN {"labels"} ELSE {})] :
        it \in {<<>>, PrTitle, <<"u">>}, d \in BOOLEAN, l \in BOOLEAN,
        e \in BOOLEAN}

\* the fallback object, as the analysis of a pull request
PrRawResult ==
    [ok |-> TRUE, improved_title |-> <<>>, description |-> Absent,
     labels |-> FALSE, keys |-> {}]

IndexedKeys_Unguarded(result) == {"improved_title"}

\* lines 77-113: the keys read as result[key]; every other read is
\* result.get(key, default). result["improved_title"] (line 78) is evaluated
\* only when result.get("improved_title") is truthy
IndexedKeys(result) ==
    IF result.improved_title # <<>> THEN {"improved_title"} ELSE {}

\* result[key] for a key the object does not have
RaisesKeyError(result) == IndexedKeys(result) \ result.keys # {}

GroqFailures == {[ok |-> FALSE, why |-> "http"], [ok |-> FALSE, why |-> "json"]}

\* the number of files of the pull request, all of them reviewable
FileCounts == {0, 5}

ReviewCap == 4

\* what groq_ask returns for one file: whether it carries a score and
\* whether one of its issues is critical
ReviewResults ==
    {[ok |-> TRUE, score |-> sc, critical |-> cr] :
        sc \in BOOLEAN, cr \in BOOLEAN}

\* (any_critical: some result of the review loop, kept or not, listed an
\* issue of severity critical)
PrLoc == [token |-> 0, files |-> Unbound, result |-> None,
          patch_data |-> [title |-> Absent, body |-> Absent],
          left |-> 0, reviews |-> 0, critical |-> FALSE,
          any_critical |-> FALSE]

\* lines 20-35
pr_guard ==
    /\ pc = "pr_guard"
    /\ LET P == req.payload
       IN  IF P.action \notin {"opened", "reopened"}
              THEN Return /\ UNCHANGED loc
           ELSE IF P.installation = 0
              THEN Raise /\ UNCHANGED loc
           ELSE IF P.author \in SKIP_AUTHORS
              THEN Return /\ UNCHANGED loc
           ELSE /\ loc' = PrLoc
                /\ pc' = "pr_token"
                /\ UNCHANGED raised
    /\ UNCHANGED <<cacheVars, status, handler, dispatched, sent, okd>>
    /\ Elsewhere

\* line 36
pr_token ==
    /\ pc = "pr_token"
    /\ get_installation_token(req.payload.installation, "pr_labels")
    /\ UNCHANGED <<status, handler, dispatched>>
    /\ Elsewhere

\* line 39
pr_labels ==
    /\ pc = "pr_labels"
    /\ ensure_labels("pr_files")
    /\ UNCHANGED <<cacheVars, status, handler, dispatched>>
    /\ Elsewhere

\* lines 42-51: when the request fails, `files` is never bound
pr_files ==
    /\ pc = "pr_files"
    /\ sent' = Bump(sent, "gh_get")
    /\ \E got \in {Unbound} \cup {[bound |-> TRUE, count |-> n] : n \in FileCounts} :
          /\ okd' = IF got = Unbound THEN okd ELSE Bump(okd, "gh_get")
          /\ loc' = [loc EXCEPT !.files = got]
    /\ pc' = "pr_ask"
    /\ UNCHANGED <<cacheVars, status, handler, dispatched, raised>>
    /\ Elsewhere

\* lines 54-81
pr_ask ==
    /\ pc = "pr_ask"
    /\ sent' = Bump(sent, "groq")
    /\ \E out \in GroqFailures \cup PrResults :
          IF out.ok /\ ~RaisesKeyError(out)
             THEN /\ okd' = Bump(okd, "groq")
                  /\ loc' = [loc EXCEPT
                         !.result = out,
                         !.patch_data = PatchData(out, req.payload.title,
                                                  req.payload.body)]
                  /\ pc' = "pr_patch"
                  /\ UNCHANGED raised
             ELSE IF out.ok
                THEN /\ okd' = Bump(okd, "groq")
                     /\ loc' = [loc EXCEPT !.result = out]
                     /\ Raise
             ELSE /\ Raise
                  /\ UNCHANGED <<okd, loc>>
    /\ UNCHANGED <<cacheVars, status, handler, dispatched>>
    /\ Elsewhere

\* lines 83-87
pr_patch ==
    /\ pc = "pr_patch"
    /\ IF NonEmptyPatch(loc.patch_data)
          THEN /\ sent' = Bump(sent, "patch")
               /\ \E ok \in BOOLEAN :
                     okd' = IF ok THEN Bump(okd, "patch") ELSE okd
          ELSE UNCHANGED <<sent, okd>>
    /\ pc' = "pr_apply"
    /\ UNCHANGED <<cacheVars, status, handler, dispatched, raised, loc>>
    /\ Elsewhere

\* lines 90-96
pr_apply ==
    /\ pc = "pr_apply"
    /\ IF loc.result.labels
          THEN /\ sent' = Bump(sent, "label_apply")
               /\ \E ok \in BOOLEAN :
                     okd' = IF ok THEN Bump(okd, "label_apply") ELSE okd
          ELSE UNCHANGED <<sent, okd>>
    /\ pc' = "pr_comment"
    /\ UNCHANGED <<cacheVars, status, handler, dispatched, raised, loc>>
    /\ Elsewhere

pr_comment_BestEffort ==
    /\ pc = "pr_comment"
    /\ sent' = Bump(sent, "comment")
    /\ \E ok \in BOOLEAN : okd' = IF ok THEN Bump(okd, "comment") ELSE okd
    /\ pc' = "pr_review"
    /\ UNCHANGED <<cacheVars, status, handler, dispatched, loc, raised>>
    /\ Elsewhere

\* lines 99-113
pr_comment ==
    /\ pc = "pr_comment"
    /\ sent' = Bump(sent, "comment")
    /\ \E ok \in BOOLEAN :
          IF ok THEN /\ okd' = Bump(okd, "comment")
                     /\ pc' = "pr_review"
                     /\ UNCHANGED raised
                ELSE /\ Raise
                     /\ UNCHANGED okd
    /\ UNCHANGED <<cacheVars, status, handler, dispatched, loc>>
    /\ Elsewhere

\* lines 116 and 119-130: reading the unbound `files` raises
pr_review ==
    /\ pc = "pr_review"
    /\ IF ~loc.files.bound
          THEN Raise /\ UNCHANGED loc
       ELSE IF loc.files.count = 0
          THEN Return /\ UNCHANGED loc
       ELSE /\ loc' = [loc EXCEPT !.left = Min({loc.files.count, ReviewCap})]
            /\ pc' = "pr_review_file"
            /\ UNCHANGED raised
    /\ UNCHANGED <<cacheVars, status, handler, dispatched, sent, okd>>
    /\ Elsewhere

\* lines 133-154: one turn of the loop
pr_review_file ==
    /\ pc = "pr_review_file"
    /\ sent' = Bump(sent, "groq")
    /\ \E out \in GroqFailures \cup ReviewResults :
          IF out.ok
             THEN /\ okd' = Bump(okd, "groq")
                  /\ loc' = [loc EXCEPT
                         !.left = @ - 1,
                         !.reviews = IF out.score THEN @ + 1 ELSE @,
                         !.critical = @ \/ (out.score /\ out.critical),
                         !.any_critical = @ \/ out.critical]
                  /\ pc' = IF loc.left = 1 THEN "pr_review_post"
                                           ELSE "pr_review_file"
                  /\ UNCHANGED raised
             ELSE /\ Raise
                  /\ UNCHANGED <<okd, loc>>
    /\ UNCHANGED <<cacheVars, status, handler, dispatched>>
    /\ Elsewhere

\* lines 156-194 and 199-200
pr_review_post ==
    /\ pc = "pr_review_post"
    /\ IF loc.reviews = 0
          THEN Return /\ UNCHANGED <<sent, okd>>
          ELSE /\ sent' = Bump(sent, "comment")
               /\ \E ok \in BOOLEAN :
                     IF ok /\ loc.critical
                        THEN /\ okd' = Bump(okd, "comment")
                             /\ pc' = "pr_critical"
                             /\ UNCHANGED raised
                        ELSE /\ okd' = IF ok THEN Bump(okd, "comment") ELSE okd
                             /\ Return
    /\ UNCHANGED <<cacheVars, status, handler, dispatched, loc>>
    /\ Elsewhere

\* lines 196-200
pr_critical ==
    /\ pc = "pr_critical"
    /\ sent' = Bump(sent, "label_apply")
    /\ \E ok \in BOOLEAN : okd' = IF ok THEN Bump(okd, "label_apply") ELSE okd
    /\ Return
    /\ UNCHANGED <<cacheVars, status, handler, dispatched, loc>>
    /\ Elsewhere

handle_pull_request ==
    \/ pr_guard \/ pr_token \/ pr_labels \/ pr_files \/ pr_ask \/ pr_patch
    \/ pr_apply \/ pr_comment \/ pr_review \/ pr_review_file
    \/ pr_review_post \/ pr_critical

(***************************************************************************)
(* handlers.py 207-278: handle_issues                                      *)
(***************************************************************************)
IsLoc == [token |-> 0, result |-> None]

\* what groq_ask returns for the triage: the object (all that is read from
\* it has a default) or the {"raw": text} fallback
IssueResults == {[ok |-> TRUE, shape |-> sh] : sh \in {"full", "raw"}}

\* lines 208-223
is_guard ==
    /\ pc = "is_guard"
    /\ LET P == req.payload
       IN  IF P.action # "opened"
              THEN Return /\ UNCHANGED loc
           ELSE IF P.installation = 0
              THEN Raise /\ UNCHANGED loc
           ELSE IF P.author \in SKIP_AUTHORS \/ P.is_pr
              THEN Return /\ UNCHANGED loc
           ELSE /\ loc' = IsLoc
                /\ pc' = "is_token"
                /\ UNCHANGED raised
    /\ UNCHANGED <<cacheVars, status, handler, dispatched, sent, okd>>
    /\ Elsewhere

\* line 224
is_token ==
    /\ pc = "is_token"
    /\ get_installation_token(req.payload.installation, "is_labels")
    /\ UNCHANGED <<status, handler, dispatched>>
    /\ Elsewhere

\* line 225
is_labels ==
    /\ pc = "is_labels"
    /\ ensure_labels("is_ask")
    /\ UNCHANGED <<cacheVars, status, handler, dispatched>>
    /\ Elsewhere

\* lines 227-245
is_ask ==
    /\ pc = "is_ask"
    /\ sent' = Bump(sent, "groq")
    /\ \E out \in GroqFailures \cup IssueResults :
          IF out.ok
             THEN /\ okd' = Bump(okd, "groq")
                  /\ loc' = [loc EXCEPT !.result = out]
                  /\ pc' = "is_apply"
                  /\ UNCHANGED raised
             ELSE /\ Raise
                  /\ UNCHANGED <<okd, loc>>
    /\ UNCHANGED <<cacheVars, status, handler, dispatched>>
    /\ Elsewhere

\* lines 248-255: the priority label is always in the list
is_apply ==
    /\ pc = "is_apply"
    /\ sent' = Bump(sent, "label_apply")
    /\ \E ok \in BOOLEAN : okd' = IF ok THEN Bump(okd, "label_apply") ELSE okd
    /\ pc' = "is_comment"
    /\ UNCHANGED <<cacheVars, status, handler, dispatched, raised, loc>>
    /\ Elsewhere

\* lines 257-278
is_comment ==
    /\ pc = "is_comment"
    /\ sent' = Bump(sent, "comment")
    /\ \E ok \in BOOLEAN :
          IF ok THEN okd' = Bump(okd, "comment") /\ Return
                ELSE UNCHANGED okd /\ Raise
    /\ UNCHANGED <<cacheVars, status, handler, dispatched, loc>>
    /\ Elsewhere

handle_issues ==
    is_guard \/ is_token \/ is_labels \/ is_ask \/ is_apply \/ is_comment

(***************************************************************************)
(* handlers.py 383-435: handle_push                                        *)
(***************************************************************************)
RefMain == <<"r", "e", "f", "s", "/", "h", "e", "a", "d", "s", "/", "m", "a", "i", "n">>
RefMaster == <<"r", "e", "f", "s", "/", "h", "e", "a", "d", "s", "/", "m", "a", "s", "t", "e", "r">>
RefDev == <<"r", "e", "f", "s", "/", "h", "e", "a", "d", "s", "/", "d", "e", "v">>
RefMainOld == RefMain \o <<"-", "o", "l", "d">>

\* line 386: any(b in ref for b in ["/main", "/master"])
WatchedRef(ref) ==
    \/ Contains(ref, <<"/", "m", "a", "i", "n">>)
    \/ Contains(ref, <<"/", "m", "a", "s", "t", "e", "r">>)

CommitWindow == 10

AlertThreshold == 3

\* line 396: the alternatives of the first group of CONVENTIONAL
ConventionalTypes ==
    {<<"f", "e", "a", "t">>, <<"f", "i", "x">>, <<"d", "o", "c", "s">>,
     <<"s", "t", "y", "l", "e">>, <<"r", "e", "f", "a", "c", "t", "o", "r">>,
     <<"p", "e", "r", "f">>, <<"t", "e", "s", "t">>, <<"c", "h", "o", "r", "e">>,
     <<"c", "i">>, <<"b", "u", "i", "l", "d">>, <<"r", "e", "v", "e", "r", "t">>}

\* message.split("\n")[0]
FirstLine(msg) ==
    LET nl == {k \in 1..Len(msg) : msg[k] = "NL"}
    IN  IF nl = {} THEN msg ELSE SubSeq(msg, 1, Min(nl) - 1)

\* line 397, (\(.+\))? tried at position p: the positions the match can
\* go on from, p itself (group skipped) or past any later ")" that leaves at
\* least one character inside the parentheses
ScopeEnds(line, p) ==
    {p} \cup (IF p <= Len(line) /\ line[p] = "("
                 THEN {k + 1 : k \in {j \in (p + 2)..Len(line) : line[j] = ")"}}
                 ELSE {})

\* line 397, (!)? tried at position q
BangEnds(line, q) ==
    {q} \cup (IF q <= Len(line) /\ line[q] = "!" THEN {q + 1} ELSE {})

\* lines 396-399: CONVENTIONAL.match(line), re.IGNORECASE
\*   ^(feat|...|revert)(\(.+\))?(!)?: .+
IsConventional(line) ==
    \E t \in ConventionalTypes :
        /\ Len(line) >= Len(t)
        /\ Lower(SubSeq(line, 1, Len(t))) = t
        /\ \E q \in ScopeEnds(line, Len(t) + 1) :
              \E b \in BangEnds(line, q) :
                  /\ b + 2 <= Len(line)
                  /\ line[b] = ":"
                  /\ line[b + 1] = " "

\* line 404: c["message"].startswith("Merge")
IsMerge(msg) == StartsAt(msg, 1, <<"M", "e", "r", "g", "e">>)

\* lines 402-404: the condition of the comprehension
IsBad(msg) == ~IsConventional(FirstLine(msg)) /\ ~IsMerge(msg)

BadCommits_NoWindow(commits) ==
    Cardinality({i \in 1..Len(commits) : IsBad(commits[i])})

\* lines 401-404: len(bad), the commits among commits[:10] that are neither
\* conventional nor merges
BadCommits(commits) ==
    Cardinality({i \in 1..Min({Len(commits), CommitWindow}) : IsBad(commits[i])})

PushLoc == [token |-> 0, bad |-> 0]

\* lines 385-409
push_guard ==
    /\ pc = "push_guard"
    /\ LET P == req.payload
       IN  IF ~WatchedRef(P.ref)
              THEN Return /\ UNCHANGED loc
           ELSE IF P.installation = 0
              THEN Return /\ UNCHANGED loc
           ELSE IF BadCommits(P.commits) = 0
              THEN Return /\ UNCHANGED loc
           ELSE /\ loc' = [PushLoc EXCEPT !.bad = BadCommits(P.commits)]
                /\ pc' = "push_token"
                /\ UNCHANGED raised
    /\ UNCHANGED <<cacheVars, status, handler, dispatched, sent, okd>>
    /\ Elsewhere

\* line 412
push_token ==
    /\ pc = "push_token"
    /\ get_installation_token(req.payload.installation, "push_issue")
    /\ UNCHANGED <<status, handler, dispatched>>
    /\ Elsewhere

\* lines 413-435
push_issue ==
    /\ pc = "push_issue"
    /\ IF loc.bad >= AlertThreshold
          THEN /\ sent' = Bump(sent, "issue_create")
               /\ \E ok \in BOOLEAN :
                     okd' = IF ok THEN Bump(okd, "issue_create") ELSE okd
          ELSE UNCHANGED <<sent, okd>>
    /\ Return
    /\ UNCHANGED <<cacheVars, status, handler, dispatched, loc>>
    /\ Elsewhere

handle_push == push_guard \/ push_token \/ push_issue

(***************************************************************************)
(* server.py: the webhook gateway                                          *)
(***************************************************************************)
Secrets == {"s1", "s2"}

\* HMAC-SHA256 under key k of body b: an ideal MAC, which tells any two
\* (key, body) pairs apart
Digest(k, b) == [key |-> k, body |-> b]

\* "sha256=" + hexdigest()
SignatureHeader(k, b) ==
    [scheme |-> "sha256=", hex |-> [mac |-> Digest(k, b), case |-> "lower"]]

\* a comparison of the scheme prefix only
verify_signature_SchemeOnly(payload, signature) ==
    IF WEBHOOK_SECRET = "" THEN TRUE
    ELSE signature # None /\ signature.scheme = "sha256="

\* lines 22-29
verify_signature(payload, signature) ==
    IF WEBHOOK_SECRET = "" THEN TRUE
    ELSE SignatureHeader(WEBHOOK_SECRET, payload) = signature

\* a body other than raw (a bit of it flipped)
Tampered(raw) == [json |-> "flipped", of |-> raw]

\* the X-Hub-Signature-256 headers a request with body raw may carry: none
\* and, when the server has a secret, the one GitHub computes under key s1
\* and that one with its key, the body signed, its scheme or the case of its
\* digits changed (without a secret the header is never read)
SigHeaders(raw) ==
    {None}
    \cup (IF WEBHOOK_SECRET = "" THEN {}
          ELSE {SignatureHeader("s1", raw),
                SignatureHeader("s2", raw),
                SignatureHeader("s1", Tampered(raw)),
                [SignatureHeader("s1", raw) EXCEPT !.scheme = "sha1="],
                [SignatureHeader("s1", raw) EXCEPT !.hex.case = "upper"]})

Authors == {"alice", "dependabot[bot]", "stale[bot]"}

\* the pieces comment bodies are made of
Fragments ==
    <<CmdFix, CmdExplain, CmdImprove, CmdTest, CmdDocs, CmdReview,
      <<"/", "F", "I", "X">>,
      <<"h", "i", " ">>,
      <<"BQ", "BQ", "BQ", "p", "y", "NL", "x", "NL", "BQ", "BQ", "BQ">>,
      <<"BQ", "BQ", "BQ", "x", "BQ", "BQ", "BQ">>>>

BodiesOfLen(n) ==
    {Flatten([k \in 1..n |-> Fragments[f[k]]]) :
        f \in [1..n -> 1..Len(Fragments)]}

CommentBodies == UNION {BodiesOfLen(n) : n \in 0..MaxFrags}

CommentPayloads ==
    {[action |-> "created", author |-> "alice", body |-> b, installation |-> 1] :
        b \in CommentBodies}
    \cup {[action |-> act, author |-> a, body |-> CmdFix, installation |-> i] :
            act \in {"created", "edited"}, a \in Authors, i \in {0, 1}}

\* request.get_json(force=True) or {} on a body that is no JSON object
EmptyPayload == [action |-> "", ref |-> <<>>]

\* pull request bodies: none, short with trailing blanks, and around the
\* limit
PrBodies ==
    {Pad(0, 0), Pad(10, 25), Pad(29, 0), Pad(30, 0)}

PrPayloads ==
    {[action |-> "opened", author |-> "alice", title |-> PrTitle, body |-> b,
      installation |-> 1] : b \in PrBodies}
    \cup {[action |-> a, author |-> u, title |-> PrTitle, body |-> Pad(30, 0),
           installation |-> i] :
            a \in {"reopened", "closed"}, u \in {"alice", "dependabot[bot]"},
            i \in {0, 1}}

IssuePayloads ==
    {[action |-> a, author |-> u, is_pr |-> p, installation |-> i] :
        a \in {"opened", "closed"}, u \in {"alice", "renovate[bot]"},
        p \in BOOLEAN, i \in {0, 1}}

\* commit messages that are conventional or merges: "feat: x",
\* "FIX(a)!: y", "feat: x" followed by a second line, "Merge x"
GoodMessages ==
    <<<<"f", "e", "a", "t", ":", " ", "x">>,
      <<"F", "I", "X", "(", "a", ")", "!", ":", " ", "y">>,
      <<"f", "e", "a", "t", ":", " ", "x", "NL", "w", "i", "p">>,
      <<"M", "e", "r", "g", "e", " ", "x">>>>

\* commit messages that are neither: "wip", "fix:x", "feat(): x", "fix: ",
\* "merge x", "wip" followed by the line "feat: x"
BadMessages ==
    <<<<"w", "i", "p">>,
      <<"f", "i", "x", ":", "x">>,
      <<"f", "e", "a", "t", "(", ")", ":", " ", "x">>,
      <<"f", "i", "x", ":", " ">>,
      <<"m", "e", "r", "g", "e", " ", "x">>,
      <<"w", "i", "p", "NL", "f", "e", "a", "t", ":", " ", "x">>>>

ThreeBad == <<BadMessages[1], BadMessages[2], BadMessages[5]>>

PushCommits ==
    {[k \in 1..n |-> BadMessages[k]] : n \in 0..4}
    \cup {<<GoodMessages[1], GoodMessages[4], BadMessages[6], BadMessages[4]>>,
          <<GoodMessages[2], BadMessages[1], GoodMessages[3], BadMessages[3],
            GoodMessages[4], BadMessages[2]>>,
          [k \in 1..12 |-> IF k <= 9 THEN GoodMessages[((k - 1) % 4) + 1]
                           ELSE BadMessages[k - 9]]}

PushPayloads ==
    {[ref |-> r, commits |-> c, installation |-> 1] :
        r \in {RefMain, RefMaster}, c \in PushCommits}
    \cup {[ref |-> r, commits |-> ThreeBad, installation |-> i] :
        r \in {RefMain, RefDev, RefMainOld, <<>>}, i \in {0, 1}}

PayloadsFor(event) ==
    IF event = "issue_comment" THEN CommentPayloads
    ELSE IF event = "pull_request" THEN PrPayloads
    ELSE IF event = "issues" THEN IssuePayloads
    ELSE IF event = "push" THEN PushPayloads
    ELSE {EmptyPayload}

Events == {"pull_request", "issues", "issue_comment", "push", "installation",
           "ping", "star", ""}

\* the raw bodies a request for event may carry: a JSON object, text that
\* is no JSON, null, an array, and an object whose "repository" is a string
RawBodies(event) ==
    {[json |-> "object", repository |-> "object", payload |-> P] :
        P \in PayloadsFor(event)}
    \cup {[json |-> "invalid"], [json |-> "null"], [json |-> "array"],
          [json |-> "object", repository |-> "string", payload |-> EmptyPayload]}

\* a request arrives at /webhook
Receive ==
    /\ pc = "idle"
    /\ ndeliv < MaxDeliveries
    /\ ndeliv' = ndeliv + 1
    /\ \E e \in Events : \E raw \in RawBodies(e) : \E sig \in SigHeaders(raw) :
          req' = [event |-> e, raw |-> raw, sig |-> sig, payload |-> None]
    /\ pc' = "verify"
    /\ UNCHANGED <<now, cacheVars, threadVars, WEBHOOK_SECRET, status, handler,
                   dispatched, raised, sent, okd, loc, groq>>

\* lines 46-49
Verify ==
    /\ pc = "verify"
    /\ IF WEBHOOK_SECRET # "" /\ ~verify_signature(req.raw, req.sig)
          THEN status' = 401 /\ pc' = "done"
          ELSE pc' = "parse" /\ UNCHANGED status
    /\ UNCHANGED <<cacheVars, handler, dispatched, raised, sent, okd, loc>>
    /\ Elsewhere

\* lines 51-54: get_json(force=True) answers 400 to a body that is no JSON;
\* `or {}` replaces a falsy value; the log line calls .get on the payload
\* and on its "repository", outside the try block
Parse ==
    /\ pc = "parse"
    /\ IF req.raw.json = "invalid"
          THEN status' = 400 /\ pc' = "done" /\ UNCHANGED req
       ELSE IF req.raw.json = "array"
          THEN status' = 500 /\ pc' = "done" /\ UNCHANGED req
       ELSE IF req.raw.json = "null"
          THEN /\ req' = [req EXCEPT !.payload = EmptyPayload]
               /\ pc' = "dispatch"
               /\ UNCHANGED status
       ELSE IF req.raw.repository = "string"
          THEN status' = 500 /\ pc' = "done" /\ UNCHANGED req
       ELSE /\ req' = [req EXCEPT !.payload = req.raw.payload]
            /\ pc' = "dispatch"
            /\ UNCHANGED status
    /\ UNCHANGED <<now, cacheVars, threadVars, WEBHOOK_SECRET, ndeliv, handler,
                   dispatched, raised, sent, okd, loc, groq>>

\* lines 57-72: the handler of the event, if it has one
HandlerOf(event) ==
    IF event = "pull_request" THEN "handle_pull_request"
    ELSE IF event = "issues" THEN "handle_issues"
    ELSE IF event = "issue_comment" THEN "handle_issue_comment"
    ELSE IF event = "push" THEN "handle_push"
    ELSE ""

\* where each handler starts
EntryOf(h) ==
    IF h = "handle_pull_request" THEN "pr_guard"
    ELSE IF h = "handle_issues" THEN "is_guard"
    ELSE IF h = "handle_issue_comment" THEN "ic_guard"
    ELSE IF h = "handle_push" THEN "push_guard"
    ELSE "respond"

\* lines 56-72
Dispatch ==
    /\ pc = "dispatch"
    /\ dispatched' = TRUE
    /\ handler' = HandlerOf(req.event)
    /\ pc' = EntryOf(HandlerOf(req.event))
    /\ UNCHANGED <<cacheVars, status, raised, sent, okd, loc>>
    /\ Elsewhere

\* the answer without the except branch
ResponseStatus_AlwaysOk(exc) == 200

\* lines 73-77: 500 from the except branch, 200 after the try block
ResponseStatus(exc) == IF exc THEN 500 ELSE 200

\* lines 73-77
Respond ==
    /\ pc = "respond"
    /\ status' = ResponseStatus(raised)
    /\ pc' = "done"
    /\ UNCHANGED <<cacheVars, handler, dispatched, raised, sent, okd, loc>>
    /\ Elsewhere

\* the response has gone out: the request and everything the handler held
\* are dropped, and the worker waits for the next request
Close ==
    /\ pc = "done"
    /\ pc' = "idle"
    /\ req' = None
    /\ status' = 0
    /\ handler' = ""
    /\ dispatched' = FALSE
    /\ raised' = FALSE
    /\ sent' = NoCalls
    /\ okd' = NoCalls
    /\ loc' = None
    /\ UNCHANGED <<now, cacheVars, threadVars, WEBHOOK_SECRET, ndeliv, groq>>

webhook == Receive \/ Verify \/ Parse \/ Dispatch \/ Respond \/ Close

Init ==
    /\ now = 0
    /\ token_cache = [i \in Installations |-> None]
    /\ nextTok = 1
    /\ tpc = [t \in Threads |-> "idle"]
    /\ tinst = [t \in Threads |-> 1]
    /\ tcached = [t \in Threads |-> None]
    /\ ttoken = [t \in Threads |-> 0]
    /\ tcheck = [t \in Threads |-> 0]
    /\ tx = [t \in Threads |-> 0]
    /\ tret = [t \in Threads |-> None]
    /\ lastFresh = [i \in Installations |-> None]
    /\ issued = [i \in Installations |-> {}]
    /\ exchanges = [i \in Installations |-> 0]
    /\ ncalls = 0
    /\ WEBHOOK_SECRET \in {"", "s1"}
    /\ pc = "idle"
    /\ req = None
    /\ status = 0
    /\ handler = ""
    /\ dispatched = FALSE
    /\ raised = FALSE
    /\ sent = NoCalls
    /\ okd = NoCalls
    /\ loc = None
    /\ ndeliv = 0
    /\ groq = NoGroqCall

Next ==
    \/ webhook
    \/ handle_pull_request
    \/ handle_issues
    \/ handle_issue_comment
    \/ handle_push

Spec == Init /\ [][Next]_vars

\* groq_ask alone, on every response of the model
InitGroq ==
    /\ now = 0
    /\ token_cache = [i \in Installations |-> None]
    /\ nextTok = 1
    /\ tpc = [t \in Threads |-> "idle"]
    /\ tinst = [t \in Threads |-> 1]
    /\ tcached = [t \in Threads |-> None]
    /\ ttoken = [t \in Threads |-> 0]
    /\ tcheck = [t \in Threads |-> 0]
    /\ tx = [t \in Threads |-> 0]
    /\ tret = [t \in Threads |-> None]
    /\ lastFresh = [i \in Installations |-> None]
    /\ issued = [i \in Installations |-> {}]
    /\ exchanges = [i \in Installations |-> 0]
    /\ ncalls = 0
    /\ WEBHOOK_SECRET = ""
    /\ pc = "idle"
    /\ req = None
    /\ status = 0
    /\ handler = ""
    /\ dispatched = FALSE
    /\ raised = FALSE
    /\ sent = NoCalls
    /\ okd = NoCalls
    /\ loc = None
    /\ ndeliv = 0
    /\ \E h \in BOOLEAN : \E t \in ResponseTexts :
          groq = [NoGroqCall EXCEPT !.pc = "call", !.http = h, !.text = t]

NextGroq == groq_ask

SpecGroq == InitGroq /\ [][NextGroq]_vars

(***************************************************************************)
(* Claims about the token cache, checked under SpecAuth                    *)
(***************************************************************************)
ReturnedCached(t) == tpc[t] = "returned" /\ tret[t].kind = "cached"
ReturnedFresh(t) == tpc[t] = "returned" /\ tret[t].kind = "fresh"
\* the step in which caller t finds no usable entry
MissStep(t) == tpc[t] = "idle" /\ tpc'[t] = "exchange"
\* the step in which caller t stores its entry
StoreStep(t) == tpc[t] = "store" /\ tpc'[t] = "returned"

C1_Returned ==
    \A t \in Threads :
        tpc[t] = "returned" =>
            /\ tret[t].kind = "cached" =>
                   /\ tcached[t] # None
                   /\ tret[t].token = tcached[t].token
                   /\ tcached[t].expires - tcheck[t] >= 60
            /\ (tcached[t] = None \/ tcached[t].expires - tcheck[t] < 60) =>
                   /\ tret[t].kind = "fresh"
                   /\ tx[t] = 1
                   /\ tret[t].token \in issued[tinst[t]]
                   /\ tcached[t] # None => tret[t].token # tcached[t].token

C1_Replaced ==
    \A t \in Threads :
        StoreStep(t) =>
            /\ token_cache'[tinst[t]] =
                   [token |-> tret'[t].token, expires |-> now + 3000]
            /\ \A j \in Installations \ {tinst[t]} :
                   token_cache'[j] = token_cache[j]

\* C1: a call never returns a cached token whose recorded expiry is less
\* than 60 seconds after the time of the call; a call that finds no entry,
\* or an entry with less than 60 seconds left, returns a token the host
\* issued in that call's one exchange, and its store replaces the whole
\* entry of that installation by that token and the expiry computed at the
\* store (50 minutes ahead).
C1_NoStaleCachedToken == []C1_Returned /\ [][C1_Replaced]_vars

\* a call found an entry inside the 60-second margin and replaced it
C1_Witness ==
    \E t \in Threads :
        /\ tpc[t] = "returned"
        /\ tcached[t] # None
        /\ tcached[t].expires - tcheck[t] < 60
        /\ tcached[t].expires - tcheck[t] > 0
        /\ tret[t].kind = "fresh"
        /\ token_cache[tinst[t]].token = tret[t].token

\* C2 as stated: a call made within 50 minutes of an earlier call that
\* performed the exchange performs no exchange itself.
C2_OneExchangeWithin50Min ==
    [][\A t \in Threads :
          (MissStep(t) /\ lastFresh[tinst'[t]] # None) =>
              now - lastFresh[tinst'[t]].start >= 3000]_vars

C2_Within49Min ==
    \A t \in Threads :
        (MissStep(t) /\ lastFresh[tinst'[t]] # None) =>
            now - lastFresh[tinst'[t]].start >= 2940

C2_Counts ==
    \A t \in Threads :
        /\ ReturnedCached(t) => tx[t] = 0 /\ tcheck[t] < tcached[t].expires
        /\ ReturnedFresh(t) => tx[t] = 1

\* C2 as amended: a call made less than 49 minutes (2940 seconds) after an
\* earlier call that performed the exchange performs no exchange, so the
\* two calls make exactly one exchange request; a call made at or after
\* the cached expiry makes one exchange request of its own.
C2_OneExchangeWithin49Min == [][C2_Within49Min]_vars /\ []C2_Counts

\* a second call, 1470 seconds after the call that performed the only
\* exchange for the installation, was served from the cache
C2_Witness ==
    \E t \in Threads :
        /\ ReturnedCached(t)
        /\ lastFresh[tinst[t]] # None
        /\ tcheck[t] - lastFresh[tinst[t]].start = 1470
        /\ exchanges[tinst[t]] = 1

\* C3: under any interleaving, every returned token was issued by a
\* successful exchange for the same installation, and once no call is in
\* flight every cache entry is the (token, expiry) pair of the last store
\* for its installation.
C3_LastWriteWins ==
    /\ \A t \in Threads :
           tpc[t] = "returned" => tret[t].token \in issued[tinst[t]]
    /\ (\A t \in Threads : tpc[t] \in {"idle", "returned", "raised"}) =>
           \A i \in Installations :
               IF lastFresh[i] = None
                  THEN token_cache[i] = None
                  ELSE token_cache[i] = [token |-> lastFresh[i].token,
                                         expires |-> lastFresh[i].end + 3000]

\* two calls for one installation both found the cache empty and both
\* exchanged; the one that exchanged first stored last, at a later time,
\* and its pair is the entry
C3_Witness ==
    /\ \A t \in Threads : tpc[t] = "returned"
    /\ \E t, u \in Threads :
           /\ tinst[t] = tinst[u]
           /\ tcached[t] = None /\ tcached[u] = None
           /\ ReturnedFresh(t) /\ ReturnedFresh(u)
           /\ tret[u].token < tret[t].token
           /\ token_cache[tinst[t]] =
                  [token |-> tret[u].token, expires |-> now + 3000]
           /\ now > 0

(***************************************************************************)
(* Claims about the gateway                                                *)
(***************************************************************************)
\* a request is being served
InFlight == pc # "idle"

\* the answer of the request being served has gone out
Answered == pc = "done"

\* the header is the one computed from the configured secret and the body
\* received
SignatureMatches ==
    req.sig = [scheme |-> "sha256=",
               hex |-> [mac |-> Digest(WEBHOOK_SECRET, req.raw), case |-> "lower"]]

\* the body is JSON that the gateway can read as an event: an object whose
\* "repository", if any, is an object, or a value that counts as false
ReadableBody ==
    \/ req.raw.json = "null"
    \/ req.raw.json = "object" /\ req.raw.repository = "object"

KnownEvents == {"pull_request", "issues", "issue_comment", "push",
                "installation", "ping"}

OnComment == handler = "handle_issue_comment" /\ req.raw.json = "object"

\* the handler got as far as choosing the command
Chose == OnComment /\ loc # None

\* which of the six tokens occur in the lower-cased body
Occurring ==
    LET low == Lower(req.payload.body)
    IN  {k \in 1..6 : Contains(low, COMMANDS[k])}

\* C6: the command chosen is the earliest entry of /fix, /explain, /improve,
\* /test, /docs, /review whose token occurs in the lower-cased body, wherever
\* in the text the tokens stand (none when no token occurs); a comment with
\* both /fix and /explain is given /fix.
\* (As a property of the step that chooses the command, and of every later
\* step of the handler, which keeps it.)
C6_Selection ==
    (OnComment /\ pc = "ic_guard" /\ loc' # None) =>
        LET occ == Occurring
        IN  /\ \A k \in 1..6 :
                  loc'.cmd = COMMANDS[k] <=>
                      (k \in occ /\ \A j \in 1..(k - 1) : j \notin occ)
            /\ loc'.cmd = None <=> occ = {}
            /\ COMMANDS = <<CmdFix, CmdExplain, CmdImprove, CmdTest, CmdDocs, CmdReview>>
            /\ {1, 2} \subseteq occ => loc'.cmd = CmdFix

C6_Kept == (Chose /\ loc' # None) => loc'.cmd = loc.cmd

C6_FirstMatchWins == [][C6_Selection /\ C6_Kept]_vars

\* /explain stands before /fix in the comment, and /fix is chosen
C6_Witness ==
    /\ Chose
    /\ req.payload.body = CmdExplain \o CmdFix
    /\ loc.cmd = CmdFix
    /\ pc = "ic_token"

\* C7: an issue_comment delivery whose body has no command token in it
\* makes no outbound call: no token exchange, no repository request, no
\* request to the assistant. (As a property of every step that makes a call.)
C7_CallStep ==
    (OnComment /\ sent' # sent /\ sent' # NoCalls) => Occurring # {}

C7_NoCommandNoCall == [][C7_CallStep]_vars

\* a created comment of a person, without a command, has been answered 200
C7_Witness ==
    /\ OnComment
    /\ Answered
    /\ req.payload.action = "created"
    /\ req.payload.author = "alice"
    /\ req.payload.body = <<"h", "i", " ">>
    /\ loc # None
    /\ status = 200

\* a "created" comment by a non-excluded author
Addressed ==
    /\ OnComment
    /\ req.payload.action = "created"
    /\ req.payload.author \notin SKIP_AUTHORS
    /\ ~EndsWithBot(req.payload.author)

\* a "created" comment by a non-excluded author with a command in it
Commanded == Addressed /\ Occurring # {}

\* C8 as stated: for a "created" comment by a non-excluded author with a
\* recognized command, exactly one reply comment is posted.
C8_ExactlyOneReply ==
    (Commanded /\ Answered) => okd["comment"] = 1

\* C8: for a "created" comment by a non-excluded author with a recognized
\* command, at most one reply is ever attempted; exactly one reply comment is
\* posted when the delivery ends without an exception, and none when it
\* ends with one (the payload names no installation, or the token exchange,
\* the request to the assistant or the post itself failed).
\* (Stated as: such a comment, unless no command occurs in it, ...)
C8_OneReplyUnlessFailed ==
    Addressed =>
        \/ /\ sent["comment"] <= 1
           /\ okd["comment"] <= sent["comment"]
           /\ Answered => (status \in {200, 500}
                           /\ (status = 200 => okd["comment"] = 1)
                           /\ (status = 500 => okd["comment"] = 0))
        \/ Occurring = {}

\* /docs has been answered with its one reply
C8_Witness ==
    /\ Commanded
    /\ Answered
    /\ loc # None
    /\ loc.cmd = CmdDocs
    /\ okd["comment"] = 1
    /\ status = 200

\* the non-empty texts a prompt puts between its fixed pieces
VarParts(prompt) ==
    {prompt[k].v : k \in {j \in 1..Len(prompt) :
                              prompt[j].kind = "var" /\ prompt[j].v # <<>>}}

\* the comment without its fenced blocks and without the command token
Prose == Strip(RemoveAll(RemoveFenced(req.payload.body, 1), 1, loc.cmd))

\* the first non-empty one of: the fenced block's contents, the remaining
\* prose, the issue's body, the issue's title
FirstSource ==
    LET code == CodeBlock(req.payload.body)
    IN  IF code # <<>> THEN code
        ELSE IF Prose # <<>> THEN Prose
        ELSE IF loc.ctx_body # <<>> THEN loc.ctx_body
        ELSE loc.ctx_title

\* C9 as stated: what is sent to the assistant as the command's context is
\* the first non-empty source, alone: no later source is merged in.
C9_FirstSourceAlone ==
    (Chose /\ loc.prompt # <<>>) =>
        VarParts(loc.prompt) = (IF FirstSource = <<>> THEN {} ELSE {FirstSource})

(***************************************************************************)
(* Claims about handle_pull_request                                        *)
(***************************************************************************)
\* handle_pull_request is past its decision on the patch (lines 76-87)
Decided ==
    /\ handler = "handle_pull_request"
    /\ loc # None
    /\ loc.result # None
    /\ pc # "pr_patch"

\* C10 as stated: a patch request is made if and only if the body is empty
\* or shorter than 30 characters, or the suggested title differs from the
\* title; the patch has a body field only in the first case.
C10_PatchIffShortOrRetitled ==
    Decided =>
        LET body == req.payload.body
            short == body = <<>> \/ Len(body) < 30
            retitled == loc.result.improved_title # req.payload.title
        IN  /\ sent["patch"] = (IF short \/ retitled THEN 1 ELSE 0)
            /\ loc.patch_data.body # Absent <=> short

\* C10: a patch request is made if and only if the body, leading and
\* trailing whitespace apart, is empty or shorter than 30 characters, or the
\* suggested title is non-empty and differs from the title; the patch has a
\* body field only in the first case and a title field only in the second,
\* so a patch of the title alone never overwrites a body of 30 or more
\* characters.
C10_PatchIffBlankOrRetitled ==
    Decided =>
        LET body == req.payload.body
            short == Len(Strip(body)) < 30
            retitled == /\ loc.result.improved_title # <<>>
                        /\ loc.result.improved_title # req.payload.title
        IN  /\ sent["patch"] = (IF short \/ retitled THEN 1 ELSE 0)
            /\ loc.patch_data.body # Absent <=> short
            /\ loc.patch_data.title # Absent <=> retitled
            /\ retitled => loc.patch_data.title = loc.result.improved_title
            /\ (~short /\ retitled) =>
                  loc.patch_data = [title |-> loc.result.improved_title,
                                    body |-> Absent]

\* a pull request with a body of 30 characters has had its title alone patched
C10_Witness ==
    /\ Decided
    /\ Answered
    /\ req.payload.body = Pad(30, 0)
    /\ loc.result.improved_title = <<"u">>
    /\ loc.patch_data = [title |-> <<"u">>, body |-> Absent]
    /\ sent["patch"] = 1
    /\ okd["patch"] = 1

(***************************************************************************)
(* Claims about handle_push                                                *)
(***************************************************************************)
\* a push delivery that reached its handler
OnPush == handler = "handle_push"

\* payload.get("commits", []) of the delivery being served
CommitsOf(P) == IF "commits" \in DOMAIN P THEN P.commits ELSE <<>>

\* the number of commits among the first ten whose first line does not match
\* the conventional pattern and whose message does not start with "Merge"
NonConforming(P) ==
    Cardinality({i \in 1..Len(CommitsOf(P)) : i <= 10 /\ IsBad(CommitsOf(P)[i])})

\* s.endswith(pat)
EndsWith(s, pat) ==
    Len(s) >= Len(pat) /\ StartsAt(s, Len(s) - Len(pat) + 1, pat)

\* the ref of the push ends in "/main" or "/master"
OnMainOrMaster ==
    \/ EndsWith(req.payload.ref, <<"/", "m", "a", "i", "n">>)
    \/ EndsWith(req.payload.ref, <<"/", "m", "a", "s", "t", "e", "r">>)

\* the installation token was obtained, from the cache or by an exchange
TokenObtained == sent["exchange"] = okd["exchange"]

\* C11 as stated: an alert issue is created if and only if at least 3 of the
\* first 10 commits are non-conventional, non-merge commits (read for the
\* pushes to a ref ending in "/main" or "/master").
C11_IssueIffThreeBad ==
    (OnPush /\ Answered /\ OnMainOrMaster) =>
        (okd["issue_create"] >= 1 <=> NonConforming(req.payload) >= 3)

\* C11: handle_push asks for an alert issue to be created if and only if the
\* ref contains "/main" or "/master", the payload names an installation, the
\* installation token was obtained and at least 3 of the first 10 commits are
\* non-conventional, non-merge commits; an issue is created only if it was
\* asked for (and the request succeeded); a push with exactly 2 such commits
\* never creates an issue, and at most one issue is asked for per delivery.
C11_RequestIffThreeBad ==
    OnPush =>
        /\ sent["issue_create"] <= 1
        /\ okd["issue_create"] <= sent["issue_create"]
        /\ Answered =>
              LET P == req.payload
              IN  /\ sent["issue_create"] = 1 <=>
                        /\ WatchedRef(P.ref)
                        /\ P.installation # 0
                        /\ TokenObtained
                        /\ NonConforming(P) >= 3
                  /\ NonConforming(P) = 2 => okd["issue_create"] = 0

\* a push of six commits of which three are neither conventional nor merges
\* has had its alert issue created
C11_Witness ==
    /\ OnPush
    /\ Answered
    /\ Len(CommitsOf(req.payload)) = 6
    /\ NonConforming(req.payload) = 3
    /\ okd["issue_create"] = 1

(***************************************************************************)
(* Claims about groq_ask                                                   *)
(***************************************************************************)
\* the first brace-delimited JSON object of the text: the earliest "{" at
\* which a JSON object starts, up to where that object ends (<<>> if none)
FirstObject(text) ==
    LET starts == {k \in 1..Len(text) : text[k] = "{" /\ ValueEnd(text, k) # 0}
    IN  IF starts = {} THEN <<>>
        ELSE SubSeq(text, Min(starts), ValueEnd(text, Min(starts)) - 1)

\* C12 as stated: groq_ask raises only on a transport/HTTP failure; for every
\* response text it returns the first brace-delimited JSON object of the
\* text, parsed, or, when there is none, the fallback object carrying the raw
\* text.
C12_RaisesOnlyOnHttpFailure ==
    groq.pc = "returned" =>
        /\ groq.out.kind = "raised" <=> ~groq.http
        /\ groq.http =>
              groq.out = IF FirstObject(groq.text) # <<>>
                            THEN [kind |-> "object", value |-> FirstObject(groq.text)]
                            ELSE [kind |-> "raw", value |-> groq.text]

(***************************************************************************)
(* Claims about the comment of handle_pull_request                         *)
(***************************************************************************)
\* a pull_request delivery that reached its handler with a JSON object
OnPr == handler = "handle_pull_request" /\ req.raw.json = "object"

\* ... with an action the handler takes up, from an author it does not skip
PrTakenUp ==
    /\ OnPr
    /\ req.payload.action \in {"opened", "reopened"}
    /\ req.payload.author \notin SKIP_AUTHORS

\* C13 as stated: a pull_request delivery with action "opened" from an author
\* outside the exclusion set always has at least one comment posted by the
\* time the delivery finishes.
C13_AlwaysComment ==
    (PrTakenUp /\ req.payload.action = "opened" /\ Answered) =>
        okd["comment"] >= 1

\* C13: a pull_request delivery with action "opened" (or "reopened") from an
\* author outside the exclusion set that is answered with 200 has had its
\* analysis comment posted, also when the code review finds no file to
\* review and posts nothing; when no comment was posted the delivery is
\* answered with 500 and the payload had no installation id, or the token
\* exchange, the analysis request or the posting of the comment failed.
C13_CommentUnlessFailed ==
    (PrTakenUp /\ Answered) =>
        /\ status \in {200, 500}
        /\ status = 200 => okd["comment"] >= 1
        /\ okd["comment"] = 0 =>
              \/ req.payload.installation = 0
              \/ ~TokenObtained
              \/ sent["groq"] = 1 /\ okd["groq"] = 0
              \/ sent["comment"] = 1
        /\ (status = 200 /\ loc.files = [bound |-> TRUE, count |-> 0]) =>
              (okd["comment"] = 1 /\ sent["groq"] = 1)

\* a pull request without files was opened: the analysis comment was posted,
\* the code review asked nothing and posted nothing
C13_Witness ==
    /\ PrTakenUp
    /\ req.payload.action = "opened"
    /\ Answered
    /\ status = 200
    /\ loc.files = [bound |-> TRUE, count |-> 0]
    /\ sent["groq"] = 1
    /\ okd["comment"] = 1

(***************************************************************************)
(* Claims about what a delivery leaves behind in the repository            *)
(***************************************************************************)
\* C14 as stated: in every delivery, when the primary comment has not been
\* posted, no label creation, no label application and no patch of the pull
\* request has been carried out by that delivery.
C14_CommentOrNothing ==
    (Answered /\ okd["comment"] = 0) =>
        /\ okd["label_create"] = 0
        /\ okd["label_apply"] = 0
        /\ okd["patch"] = 0

(***************************************************************************)
(* Claims about the best-effort label calls                                *)
(***************************************************************************)
LabelKinds == {"label_create", "label_apply"}

\* the step makes a label call
LabelStep == \E k \in LabelKinds : sent'[k] > sent[k]

\* where each handler goes on after a label call
AfterLabels ==
    [pr_labels |-> "pr_files", pr_apply |-> "pr_comment", pr_critical |-> "respond",
     is_labels |-> "is_ask", is_apply |-> "is_comment"]

\* some label call of the delivery has failed
LabelFailed == \E k \in LabelKinds : okd[k] < sent[k]

\* no request other than a label call or the patch has failed, and the list
\* of files was obtained
NothingElseFailed ==
    /\ \A k \in {"exchange", "gh_get", "groq", "comment"} : okd[k] = sent[k]
    /\ (handler = "handle_pull_request" /\ loc # None) => loc.files.bound

\* C15: a failed label call (creation, application to a PR or an issue, the
\* "critical" label) is ignored: the step that makes the call raises nothing
\* and the handler goes on as it does after a successful call, and a
\* delivery in which only label calls failed has its primary comment posted
\* and is answered with 200, not with a server error.
C15_LabelFailuresIgnored ==
    [][/\ LabelStep =>
             /\ ~raised'
             /\ pc \in DOMAIN AfterLabels
             /\ pc' = AfterLabels[pc]
       /\ (Answered' /\ LabelFailed' /\ NothingElseFailed') =>
             (status' = 200 /\ okd'["comment"] >= 1)]_vars

\* a pull request whose label creations, label application and "critical"
\* label all failed has both its comments posted and is answered with 200
C15_Witness ==
    /\ Answered
    /\ handler = "handle_pull_request"
    /\ okd["label_create"] = 0
    /\ sent["label_apply"] = 2
    /\ okd["label_apply"] = 0
    /\ okd["comment"] = 2
    /\ status = 200

(***************************************************************************)
(* Claims about a failed token exchange                                    *)
(***************************************************************************)
\* the token exchange of the delivery was attempted and refused
ExchangeFailed == sent["exchange"] = 1 /\ okd["exchange"] = 0

\* C16: when the token exchange returns a non-success status, whichever of
\* the four handlers is running: exactly one exchange attempt is made in the
\* delivery (no retry), no repository API call and no assistant call is made
\* afterwards, and the gateway answers with 500.
C16_ExchangeFailureFatal ==
    /\ sent["exchange"] <= 1
    /\ ExchangeFailed =>
          /\ handler \in {"handle_pull_request", "handle_issues",
                          "handle_issue_comment", "handle_push"}
          /\ \A k \in CallKinds \ {"exchange"} : sent[k] = 0
          /\ raised
          /\ pc \in {"respond", "done"}
          /\ Answered => status = 500

\* a push with non-conforming commits whose token exchange was refused has
\* been answered with 500
C16_Witness ==
    /\ OnPush
    /\ ExchangeFailed
    /\ Answered
    /\ status = 500
    /\ NonConforming(req.payload) >= 1

(***************************************************************************)
(* Claims about malformed or partial assistant output                      *)
(***************************************************************************)
\* the assistant has answered the handler's (first) request with an object
AnalysisReturned ==
    /\ handler \in {"handle_pull_request", "handle_issues", "handle_issue_comment"}
    /\ okd["groq"] >= 1

\* C17: whatever object the assistant client returns (the fallback object
\* with the raw text only, or an object with any subset of the expected
\* fields), the handler applies the defaults, raises nothing before it
\* comes to its primary comment, and posts it: from the answer on the
\* handler is on its way to the comment request without having raised, and
\* the comment is missing at the end only if that request itself failed.
\* With the fallback object the patch of a pull request carries no title
\* and, when a body is due, the body the pull request already has.
C17_DefaultsNeverAbort ==
    AnalysisReturned =>
        /\ sent["comment"] = 0 => (~raised /\ pc \notin {"respond", "done"})
        /\ (Answered /\ okd["comment"] = 0) => (sent["comment"] = 1 /\ status = 500)
        /\ (handler = "handle_pull_request" /\ loc.result = PrRawResult) =>
              loc.patch_data = [title |-> Absent,
                                body |-> IF NeedsBody(req.payload.body)
                                            THEN req.payload.body ELSE Absent]

\* a pull request analysed to the fallback object has had its comment posted
\* and the delivery is answered with 200
C17_Witness ==
    /\ AnalysisReturned
    /\ handler = "handle_pull_request"
    /\ loc.result = PrRawResult
    /\ okd["comment"] >= 1
    /\ Answered
    /\ status = 200

(***************************************************************************)
(* Claims about which pushes handle_push acts on                           *)
(***************************************************************************)
\* C18 as stated: handle_push acts only on pushes whose ref ends in "/main"
\* or "/master"; for every other ref, also one that merely contains one of
\* these strings followed by more characters, it makes no outbound call and
\* creates no issue.
C18_OnlyRefsEndingInMain ==
    (OnPush /\ ~OnMainOrMaster) => sent = NoCalls

\* C19 as stated: a push to main/master with fewer than three non-conforming
\* commits (0, 1 or 2) produces no action at all: no token exchange, no
\* repository API call and no issue.
C19_NoActionBelowThree ==
    (OnPush /\ OnMainOrMaster /\ NonConforming(req.payload) < 3) => sent = NoCalls

(***************************************************************************)
(* Claims about the assistant call of each command                         *)
(***************************************************************************)
\* C20 as stated: for every recognized command (/fix, /explain, /improve,
\* /test, /docs, /review) exactly one request to the assistant is made in
\* the delivery, and it has completed before the reply comment is posted.
C20_EveryCommandAsks ==
    (Chose /\ loc.cmd # None /\ sent["comment"] >= 1) =>
        (sent["groq"] = 1 /\ okd["groq"] = 1)

(***************************************************************************)
(* Claims about the code review of a pull request                          *)
(***************************************************************************)
\* the label requests the handler makes apart from the "critical" one: the
\* labels of the analysis, when it lists any (lines 90-96)
AnalysisLabelRequests == IF loc.result.labels THEN 1 ELSE 0

\* C21 as stated: whenever an issue returned by one of the per-file reviews
\* carries severity critical, the "critical" label is applied to the pull
\* request (read in favour of the claim: in a delivery in which no request
\* to the assistant and no comment failed, its application is requested).
C21_CriticalAlwaysLabelled ==
    (OnPr /\ Answered /\ loc # None /\ loc.any_critical /\ NothingElseFailed) =>
        sent["label_apply"] = AnalysisLabelRequests + 1

\* the request for the changed files of the pull request was made and failed
FilesRequestFailed ==
    OnPr /\ loc # None /\ sent["gh_get"] = 1 /\ okd["gh_get"] = 0

\* C22 as stated: when the request for the changed files fails, the handler
\* goes on with an empty list of files: it requests the analysis, posts the
\* analysis comment and finishes without raising, and the delivery is
\* answered with 200 (read for the deliveries in which the analysis request
\* and the posting of the comment succeed).
C22_FilesFailureTolerated ==
    (FilesRequestFailed /\ Answered /\ okd["groq"] >= 1 /\ okd["comment"] >= 1) =>
        (~raised /\ status = 200)

(***************************************************************************)
(* Claims about the cache after a failed exchange                          *)
(***************************************************************************)
\* the step in which the call of caller t fails
FailStep(t) == tpc[t] # "raised" /\ tpc'[t] = "raised"

\* C23: a failed token exchange leaves the token cache unchanged. No step of
\* a call that fails writes to the cache: the lookup that finds no usable
\* entry and the refused exchange leave every entry, that of installation i
\* (present or absent) and those of all other installations, as it was; the
\* cache is written only by the store step of a call whose exchange
\* succeeded, and only at that call's installation.
C23_FailedExchangeKeepsCache ==
    [][/\ \A t \in Threads :
             (MissStep(t) \/ FailStep(t)) => token_cache' = token_cache
       /\ \A t \in Threads : FailStep(t) => tpc[t] = "exchange"
       /\ token_cache' # token_cache =>
             \E t \in Threads :
                 /\ StoreStep(t)
                 /\ ttoken[t] \in issued[tinst[t]]
                 /\ \A i \in Installations \ {tinst[t]} :
                        token_cache'[i] = token_cache[i]]_vars

\* a call has failed for an installation whose entry, stored by an earlier
\* call and no longer usable, is still in the cache
C23_Witness ==
    \E t \in Threads :
        /\ tpc[t] = "raised"
        /\ token_cache[tinst[t]] # None
        /\ ~CacheHit(token_cache[tinst[t]], now)

====
